---- MODULE Spec2Model ----
(***************************************************************************)
(* The notebook exoplanet/01_line.ipynb as a state machine: the code cells *)
(* run top to bottom, one statement group at a time.                       *)
(*                                                                         *)
(* Floating-point values are modelled by a small binary format: a value is *)
(* NaN, +inf, -inf or a finite integer count of a fixed quantum, and every *)
(* arithmetic result is rounded to five significant bits (ties to even),   *)
(* the way float64 rounds to fifty-three.  Catalog quantities (radius,     *)
(* mass and their errors) count eighths; log10 results count 1/1024ths.    *)
(***************************************************************************)
EXTENDS Integers, Sequences, FiniteSets, TLC

VARIABLES
    pc,             \* the statement group that runs next
    catalog,        \* the table the remote archive serves
    data,           \* the DataFrame bound to `data`
    selected,       \* the boolean mask bound to `selected`
    log_radius, log_radius_err, log_mass, log_mass_err,
    model,          \* the pm.Model under construction: priors and likelihoods
    trace,          \* the MultiTrace: free variable name -> its draws
    samples,        \* the DataFrame pm.trace_to_dataframe returns
    x_pred, mu_pred, mn_pred, mx_pred,
    requested,      \* variable names the cells after sampling asked the trace for
    err             \* the exception the last statement group raised, or "none"

vars == << pc, catalog, data, selected, log_radius, log_radius_err, log_mass,
           log_mass_err, model, trace, samples, x_pred, mu_pred, mn_pred,
           mx_pred, requested, err >>

----------------------------------------------------------------------------
(* Bounds of the model *)

\* rows in the catalog (the archive serves a few thousand)
MaxRows == 3
\* draws the sampler returns per variable (draws=2000 per chain in the notebook)
MaxDraws == 4
\* points of the prediction grid (5000 in the notebook)
GridN == 4

----------------------------------------------------------------------------
(* Floating point values *)

NaN == [k |-> "nan", v |-> 0]
PosInf == [k |-> "inf", v |-> 1]
NegInf == [k |-> "inf", v |-> -1]
Fin(n) == [k |-> "fin", v |-> n]

\* an integer literal of the code as a catalog quantity (eighths)
Lit(n) == Fin(8 * n)

AbsInt(n) == IF n < 0 THEN -n ELSE n

\* the spacing of representable values around magnitude a: five significant bits
RECURSIVE Quantum(_)
Quantum(a) == IF a < 32 THEN 1 ELSE 2 * Quantum(a \div 2)

\* round-to-nearest, ties to even, of an exact integer result
RoundSig(n) ==
    LET a == AbsInt(n)
        q == Quantum(a)
        lo == (a \div q) * q
        rem == a - lo
        up == \/ 2 * rem > q
              \/ (2 * rem = q /\ (lo \div q) % 2 = 1)
        r == IF up THEN lo + q ELSE lo
    IN  IF n < 0 THEN -r ELSE r

FNeg(a) == IF a.k = "nan" THEN NaN ELSE [k |-> a.k, v |-> -a.v]

FAdd(a, b) ==
    IF a.k = "nan" \/ b.k = "nan" THEN NaN
    ELSE IF a.k = "inf" /\ b.k = "inf" THEN (IF a.v = b.v THEN a ELSE NaN)
    ELSE IF a.k = "inf" THEN a
    ELSE IF b.k = "inf" THEN b
    ELSE Fin(RoundSig(a.v + b.v))

FSub(a, b) == FAdd(a, FNeg(b))

\* a < b; every comparison with NaN is false
FLt(a, b) ==
    /\ a.k # "nan"
    /\ b.k # "nan"
    /\ IF a.k = "inf" THEN a.v = -1 /\ b # NegInf
       ELSE IF b.k = "inf" THEN b.v = 1
       ELSE a.v < b.v

FGt(a, b) == FLt(b, a)

\* np.isfinite
IsFinite(a) == a.k = "fin"

\* np.abs
FAbs(a) == IF a.k = "nan" THEN NaN ELSE [k |-> a.k, v |-> AbsInt(a.v)]

\* log10(n/8) in 1/1024ths, correctly rounded to five significant bits, n = 1..64
Log10Tab ==
  << -928, -608, -432, -304, -208, -128, -60, 0,
     52, 100, 144, 184, 216, 248, 272, 304,
     336, 368, 384, 400, 432, 448, 464, 496,
     512, 512, 544, 544, 576, 576, 608, 608,
     640, 640, 672, 672, 672, 704, 704, 704,
     736, 736, 736, 768, 768, 768, 800, 800,
     800, 800, 832, 832, 832, 864, 864, 864,
     864, 896, 896, 896, 896, 896, 928, 928 >>

\* np.log10 of a catalog quantity: NaN for a negative argument, -inf for zero
Log10(a) ==
    IF a.k = "nan" THEN NaN
    ELSE IF a.k = "inf" THEN (IF a.v = 1 THEN PosInf ELSE NaN)
    ELSE IF a.v < 0 THEN NaN
    ELSE IF a.v = 0 THEN NegInf
    ELSE Fin(Log10Tab[a.v])

\* 0.5 * a: exact, a binary scaling (every finite log difference is even)
Half(a) == IF a.k = "fin" THEN Fin(a.v \div 2) ELSE a

----------------------------------------------------------------------------
(* The data filter *)

Columns == << "pl_rade", "pl_radeerr1", "pl_radeerr2",
              "pl_masse", "pl_masseerr1", "pl_masseerr2" >>

\* a slip in the range test: the upper boundary radius = 4 is let through
MaskRadiusRangeInclusive(df) ==
    [i \in 1..Len(df) |->
        FLt(Lit(1), df[i].pl_rade) /\ ~FGt(df[i].pl_rade, Lit(4)) /\ df[i].pl_rade.k # "nan"]

\* selected = (1 < data.pl_rade) & (data.pl_rade < 4)
MaskRadiusRange(df) ==
    [i \in 1..Len(df) |-> FLt(Lit(1), df[i].pl_rade) /\ FLt(df[i].pl_rade, Lit(4))]

\* selected &= data.pl_masse + data.pl_masseerr2 > 0
MaskMassLower(df, sel) ==
    [i \in 1..Len(df) |->
        sel[i] /\ FGt(FAdd(df[i].pl_masse, df[i].pl_masseerr2), Lit(0))]

\* selected &= data.pl_rade + data.pl_radeerr2 > 0
MaskRadiusLower(df, sel) ==
    [i \in 1..Len(df) |->
        sel[i] /\ FGt(FAdd(df[i].pl_rade, df[i].pl_radeerr2), Lit(0))]

\* one pass of the loop body: selected &= isfinite(col) & (abs(col) > 0)
MaskColumn(df, sel, column) ==
    [i \in 1..Len(df) |->
        sel[i] /\ IsFinite(df[i][column]) /\ FGt(FAbs(df[i][column]), Lit(0))]

\* for column in [...]: the loop from its c-th column on
RECURSIVE ColumnLoop(_, _, _)
ColumnLoop(df, sel, c) ==
    IF c > Len(Columns) THEN sel
    ELSE ColumnLoop(df, MaskColumn(df, sel, Columns[c]), c + 1)

\* a slip in the mask: it is read one position off, so row i is judged by row i+1
\* and the last row by nothing
SelectedOffByOne(df) ==
    LET sel == ColumnLoop(df, MaskRadiusLower(df, MaskMassLower(df, MaskRadiusRange(df))), 1)
    IN  [i \in 1..Len(df) |-> i < Len(df) /\ sel[i + 1]]

Selected(df) ==
    ColumnLoop(df, MaskRadiusLower(df, MaskMassLower(df, MaskRadiusRange(df))), 1)

\* a slip in the row selection: the kept rows come out in reverse table order
RECURSIVE BoolIndexReversed(_, _)
BoolIndexReversed(df, mask) ==
    IF Len(df) = 0 THEN << >>
    ELSE IF mask[1]
         THEN BoolIndexReversed(Tail(df), Tail(mask)) \o << df[1] >>
         ELSE BoolIndexReversed(Tail(df), Tail(mask))

\* data[selected]: the rows whose mask entry is True, in table order
RECURSIVE BoolIndex(_, _)
BoolIndex(df, mask) ==
    IF Len(df) = 0 THEN << >>
    ELSE IF mask[1]
         THEN << df[1] >> \o BoolIndex(Tail(df), Tail(mask))
         ELSE BoolIndex(Tail(df), Tail(mask))

----------------------------------------------------------------------------
(* The log transform *)

\* a copy-and-paste slip: every central value is taken from the mass column
LogCentralMassColumn(df, column) == [i \in 1..Len(df) |-> Log10(df[i].pl_masse)]

LogCentral(df, column) == [i \in 1..Len(df) |-> Log10(df[i][column])]

\* 0.5 * (log10(value + upper) - log10(value + lower))
LogErr(df, column, upper, lower) ==
    [i \in 1..Len(df) |->
        Half(FSub(Log10(FAdd(df[i][column], df[i][upper])),
                  Log10(FAdd(df[i][column], df[i][lower]))))]

----------------------------------------------------------------------------
(* The probabilistic model and the sampler *)

VarNames == << "A", "B", "logS" >>

NoModel == [priors |-> << >>, observed |-> {}]
NoTrace == << >>

Uniform(lo, hi) == [dist |-> "Uniform", lower |-> lo, upper |-> hi]

\* the body of `with pm.Model() as model:` up to the call of pm.sample
ModelBody == [priors |-> [n \in {"A"} |-> Uniform(-5, 5)], observed |-> {}]

\* the model the markdown cell above the exercise states:
\*   A, B, log(sigma) ~ Uniform(-5, 5)
\*   log10 M_n ~ Normal(A log10 R_n + B, sqrt(Sigma_M^2 + sigma_n^2))
Likelihood ==
    [dist |-> "Normal", mu |-> "A * log_radius + B",
     variance |-> "exp(logS)^2 + log_mass_err^2", observed |-> "log_mass"]

CompletedModel ==
    [priors |-> [n \in {"A", "B", "logS"} |-> Uniform(-5, 5)], observed |-> {Likelihood}]

\* values a draw of one parameter takes in the model
ParamVals == {-1, 2}

\* a free variable's draws lie inside the support of its prior
Support(prior) == {d \in ParamVals : prior.lower < d /\ d < prior.upper}

SeqsOfLen(S, n) == [1..n -> S]

\* the traces pm.sample can return for model m: n draws of every free variable
Traces(m) ==
    UNION { { t \in [DOMAIN m.priors -> SeqsOfLen(ParamVals, n)] :
                \A name \in DOMAIN m.priors :
                    \A i \in 1..n : t[name][i] \in Support(m.priors[name]) }
            : n \in 1..MaxDraws }

NDraws(tr) == IF DOMAIN tr = {} THEN 0 ELSE Len(tr[CHOOSE name \in DOMAIN tr : TRUE])

----------------------------------------------------------------------------
(* Reductions over the sample collection; parameters are whole numbers,   *)
(* grid abscissae and predictions count 1/1000ths, and a median or        *)
(* percentile counts 1/100000ths (the interpolation weight is q/100).     *)

RECURSIVE Insert(_, _)
Insert(x, s) ==
    IF Len(s) = 0 THEN << x >>
    ELSE IF x <= s[1] THEN << x >> \o s
    ELSE << s[1] >> \o Insert(x, Tail(s))

RECURSIVE Sorted(_)
Sorted(s) == IF Len(s) = 0 THEN << >> ELSE Insert(s[1], Sorted(Tail(s)))

\* np.median: the middle element, or the mean of the two middle elements
Median(s) ==
    LET n == Len(s)
        t == Sorted(s)
    IN  IF n % 2 = 1 THEN 100 * t[(n + 1) \div 2]
        ELSE 50 * (t[n \div 2] + t[n \div 2 + 1])

\* np.percentile(s, q): linear interpolation at virtual index q/100 * (n-1)
Percentile(s, q) ==
    LET n == Len(s)
        t == Sorted(s)
        pos == q * (n - 1)
        lo == pos \div 100
        frac == pos % 100
        hi == IF lo + 2 <= n THEN lo + 2 ELSE n
    IN  100 * t[lo + 1] + frac * (t[hi] - t[lo + 1])

\* np.exp(k) in 1/1000ths for k = -5..5
ExpTab == << 7, 18, 50, 135, 368, 1000, 2718, 7389, 20086, 54598, 148413 >>
Exp(k) == ExpTab[k + 6]

\* np.linspace(-0.1, 0.8, GridN)
Linspace == [g \in 1..GridN |-> -100 + ((g - 1) * 900) \div (GridN - 1)]

\* lines = trace["A"][:, None] * x_pred[None, :] + trace["B"][:, None]
Lines(tr, xs) ==
    [i \in 1..NDraws(tr) |-> [g \in 1..Len(xs) |-> tr["A"][i] * xs[g] + 1000 * tr["B"][i]]]

\* a sign slip: the scatter is added to the lower edge instead of subtracted
MnPlus(tr, xs) ==
    [i \in 1..NDraws(tr) |-> [g \in 1..Len(xs) |-> Lines(tr, xs)[i][g] + Exp(tr["logS"][i])]]

\* mn = lines - np.exp(trace["logS"])[:, None]
Mn(tr, xs) ==
    [i \in 1..NDraws(tr) |-> [g \in 1..Len(xs) |-> Lines(tr, xs)[i][g] - Exp(tr["logS"][i])]]

\* mx = lines + np.exp(trace["logS"])[:, None]
Mx(tr, xs) ==
    [i \in 1..NDraws(tr) |-> [g \in 1..Len(xs) |-> Lines(tr, xs)[i][g] + Exp(tr["logS"][i])]]

\* the g-th column of a draws-by-grid matrix (a reduction along axis=0)
Column(mat, g) == [i \in 1..Len(mat) |-> mat[i][g]]

MedianAxis0(mat, xs) == [g \in 1..Len(xs) |-> Median(Column(mat, g))]
PercentileAxis0(mat, q, xs) == [g \in 1..Len(xs) |-> Percentile(Column(mat, g), q)]

----------------------------------------------------------------------------
(* Catalogs *)

Row(r, ru, rl, m, mu, ml) ==
    [pl_rade |-> r, pl_radeerr1 |-> ru, pl_radeerr2 |-> rl,
     pl_masse |-> m, pl_masseerr1 |-> mu, pl_masseerr2 |-> ml]

\* rows of the multi-row catalogs
CatalogRows ==
    { Row(Fin(16), Fin(2), Fin(-2), Fin(24), Fin(8), Fin(-8)),
      Row(Fin(29), Fin(2), Fin(-2), Fin(40), Fin(8), Fin(-8)),
      Row(Fin(30), Fin(2), Fin(-2), Fin(40), Fin(16), Fin(-8)),
      Row(Fin(32), Fin(2), Fin(-2), Fin(24), Fin(8), Fin(-8)),
      Row(Fin(16), Fin(2), Fin(-2), NaN, NaN, NaN),
      Row(Fin(9), Fin(2), Fin(-2), Fin(-8), Fin(8), Fin(16)) }

RECURSIVE Tables(_, _)
Tables(S, n) == IF n = 0 THEN {<< >>} ELSE Tables(S, n - 1) \cup SeqsOfLen(S, n)

\* field values of the single-row catalogs
RadiusVals == {NaN, PosInf, Fin(-16), Fin(0), Fin(8), Fin(16), Fin(29), Fin(30), Fin(32)}
MassVals == {NaN, PosInf, Fin(-8), Fin(0), Fin(24), Fin(40)}
ErrVals == {NaN, NegInf, Fin(-24), Fin(-2), Fin(0), Fin(2), Fin(16)}

AllRows ==
    { Row(r, ru, rl, m, mu, ml) :
        r \in RadiusVals, ru \in ErrVals, rl \in ErrVals,
        m \in MassVals, mu \in ErrVals, ml \in ErrVals }

----------------------------------------------------------------------------
(* The cells *)

Unbound ==
    /\ data = << >>
    /\ selected = << >>
    /\ log_radius = << >>
    /\ log_radius_err = << >>
    /\ log_mass = << >>
    /\ log_mass_err = << >>
    /\ samples = NoTrace
    /\ x_pred = << >>
    /\ mu_pred = << >>
    /\ mn_pred = << >>
    /\ mx_pred = << >>
    /\ requested = {}
    /\ err = "none"

Init ==
    /\ pc = "read"
    /\ catalog \in Tables(CatalogRows, MaxRows)
    /\ model = NoModel
    /\ trace = NoTrace
    /\ Unbound

\* data = pd.read_csv(url)
ReadCsv ==
    /\ pc = "read"
    /\ data' = catalog
    /\ pc' = "filter"
    /\ err' = "none"
    /\ UNCHANGED << catalog, selected, log_radius, log_radius_err, log_mass,
                    log_mass_err, model, trace, samples, x_pred, mu_pred,
                    mn_pred, mx_pred, requested >>

\* selected = ...; data = pd.DataFrame(data[selected])
Filter ==
    /\ pc = "filter"
    /\ selected' = Selected(data)
    /\ data' = BoolIndex(data, Selected(data))
    /\ pc' = "transform"
    /\ err' = "none"
    /\ UNCHANGED << catalog, log_radius, log_radius_err, log_mass, log_mass_err,
                    model, trace, samples, x_pred, mu_pred, mn_pred, mx_pred,
                    requested >>

\* log_radius = ...; log_radius_err = ...; log_mass = ...; log_mass_err = ...
LogTransform ==
    /\ pc = "transform"
    /\ log_radius' = LogCentral(data, "pl_rade")
    /\ log_radius_err' = LogErr(data, "pl_rade", "pl_radeerr1", "pl_radeerr2")
    /\ log_mass' = LogCentral(data, "pl_masse")
    /\ log_mass_err' = LogErr(data, "pl_masse", "pl_masseerr1", "pl_masseerr2")
    /\ pc' = "model"
    /\ err' = "none"
    /\ UNCHANGED << catalog, data, selected, model, trace, samples, x_pred,
                    mu_pred, mn_pred, mx_pred, requested >>

\* with pm.Model() as model: ... (everything above pm.sample)
DefineModel ==
    /\ pc = "model"
    /\ model' = ModelBody
    /\ pc' = "sample"
    /\ err' = "none"
    /\ UNCHANGED << catalog, data, selected, log_radius, log_radius_err, log_mass,
                    log_mass_err, trace, samples, x_pred, mu_pred, mn_pred,
                    mx_pred, requested >>

\* trace = pm.sample(draws=2000, tune=2000, target_accept=0.9)
Sample ==
    /\ pc = "sample"
    /\ trace' \in Traces(model)
    /\ pc' = "traceplot"
    /\ err' = "none"
    /\ UNCHANGED << catalog, data, selected, log_radius, log_radius_err, log_mass,
                    log_mass_err, model, samples, x_pred, mu_pred, mn_pred,
                    mx_pred, requested >>

\* the first of the names, in order, that the trace does not hold (0: none)
RECURSIVE FirstMissing(_, _, _)
FirstMissing(tr, names, c) ==
    IF c > Len(names) THEN 0
    ELSE IF names[c] \notin DOMAIN tr THEN c
    ELSE FirstMissing(tr, names, c + 1)

\* the names a lookup of `names` asks the trace for before it returns or raises
Asked(tr, names) ==
    LET f == FirstMissing(tr, names, 1)
    IN  {names[c] : c \in 1..(IF f = 0 THEN Len(names) ELSE f)}

\* pm.traceplot(trace, varnames=["A", "B", "logS"])
TracePlot ==
    /\ pc = "traceplot"
    /\ requested' = requested \cup Asked(trace, VarNames)
    /\ err' = IF FirstMissing(trace, VarNames, 1) = 0 THEN "none" ELSE "KeyError"
    /\ pc' = "summary"
    /\ UNCHANGED << catalog, data, selected, log_radius, log_radius_err, log_mass,
                    log_mass_err, model, trace, samples, x_pred, mu_pred,
                    mn_pred, mx_pred >>

\* pm.summary(trace, varnames=["A", "B", "logS"])
Summary ==
    /\ pc = "summary"
    /\ requested' = requested \cup Asked(trace, VarNames)
    /\ err' = IF FirstMissing(trace, VarNames, 1) = 0 THEN "none" ELSE "KeyError"
    /\ pc' = "corner"
    /\ UNCHANGED << catalog, data, selected, log_radius, log_radius_err, log_mass,
                    log_mass_err, model, trace, samples, x_pred, mu_pred,
                    mn_pred, mx_pred >>

\* a slip in the corner cell: the trace is released once the table is asked for
CornerDropsTrace ==
    /\ pc = "corner"
    /\ requested' = requested \cup Asked(trace, VarNames)
    /\ samples' = samples
    /\ trace' = NoTrace
    /\ err' = IF FirstMissing(trace, VarNames, 1) = 0 THEN "none" ELSE "KeyError"
    /\ pc' = "predict"
    /\ UNCHANGED << catalog, data, selected, log_radius, log_radius_err, log_mass,
                    log_mass_err, model, x_pred, mu_pred, mn_pred, mx_pred >>

\* samples = pm.trace_to_dataframe(trace, varnames=[...]); corner.corner(samples, ...)
Corner ==
    /\ pc = "corner"
    /\ requested' = requested \cup Asked(trace, VarNames)
    /\ IF FirstMissing(trace, VarNames, 1) = 0
       THEN /\ samples' = [name \in {"A", "B", "logS"} |-> trace[name]]
            /\ err' = "none"
       ELSE /\ samples' = samples
            /\ err' = "KeyError"
    /\ pc' = "predict"
    /\ UNCHANGED << catalog, data, selected, log_radius, log_radius_err, log_mass,
                    log_mass_err, model, trace, x_pred, mu_pred, mn_pred, mx_pred >>

\* the predictive band: x_pred, lines, mu_pred, mn, mn_pred, mx, mx_pred.
\* The statements run in order; a missing name raises KeyError and the
\* names bound before it stay bound.
Predict ==
    /\ pc = "predict"
    /\ x_pred' = Linspace
    /\ IF FirstMissing(trace, << "A", "B" >>, 1) # 0
       THEN /\ requested' = requested \cup Asked(trace, << "A", "B" >>)
            /\ err' = "KeyError"
            /\ UNCHANGED << mu_pred, mn_pred, mx_pred >>
       ELSE /\ requested' = requested \cup {"A", "B", "logS"}
            /\ mu_pred' = MedianAxis0(Lines(trace, Linspace), Linspace)
            /\ IF "logS" \notin DOMAIN trace
               THEN /\ err' = "KeyError"
                    /\ UNCHANGED << mn_pred, mx_pred >>
               ELSE /\ mn_pred' = PercentileAxis0(Mn(trace, Linspace), 16, Linspace)
                    /\ mx_pred' = PercentileAxis0(Mx(trace, Linspace), 84, Linspace)
                    /\ err' = "none"
    /\ pc' = "done"
    /\ UNCHANGED << catalog, data, selected, log_radius, log_radius_err, log_mass,
                    log_mass_err, model, trace, samples >>

Next ==
    \/ ReadCsv
    \/ Filter
    \/ LogTransform
    \/ DefineModel
    \/ Sample
    \/ TracePlot
    \/ Summary
    \/ Corner
    \/ Predict

Spec == Init /\ [][Next]_vars

----------------------------------------------------------------------------
(* The filter and the log transform on every single-row catalog *)

InitRow ==
    /\ pc = "read"
    /\ catalog \in SeqsOfLen(AllRows, 1)
    /\ model = NoModel
    /\ trace = NoTrace
    /\ Unbound

NextRow ==
    \/ ReadCsv
    \/ Filter
    \/ LogTransform

SpecRow == InitRow /\ [][NextRow]_vars

(* The predictive band on every sample collection of the completed model:  *)
(* the notebook with the exercise filled in as its markdown states, about  *)
(* to run the last cell.                                                   *)

BandCatalog == << Row(Fin(16), Fin(2), Fin(-2), Fin(24), Fin(8), Fin(-8)) >>

InitBand ==
    /\ pc = "predict"
    /\ catalog = BandCatalog
    /\ selected = Selected(BandCatalog)
    /\ data = BoolIndex(BandCatalog, Selected(BandCatalog))
    /\ log_radius = LogCentral(data, "pl_rade")
    /\ log_radius_err = LogErr(data, "pl_rade", "pl_radeerr1", "pl_radeerr2")
    /\ log_mass = LogCentral(data, "pl_masse")
    /\ log_mass_err = LogErr(data, "pl_masse", "pl_masseerr1", "pl_masseerr2")
    /\ model = CompletedModel
    /\ trace \in Traces(CompletedModel)
    /\ samples = trace
    /\ x_pred = << >>
    /\ mu_pred = << >>
    /\ mn_pred = << >>
    /\ mx_pred = << >>
    /\ requested = {"A", "B", "logS"}
    /\ err = "none"

NextBand == Predict

SpecBand == InitBand /\ [][NextBand]_vars

----------------------------------------------------------------------------
(* Properties *)

Filtered == pc \notin {"read", "filter"}
Transformed == pc \notin {"read", "filter", "transform"}
Sampled == pc \in {"traceplot", "summary", "corner", "predict", "done"}

\* the retention rule in exact arithmetic on the six reported numbers
FiniteNonzero(x) == x.k = "fin" /\ x.v # 0

Retain(row) ==
    /\ \A c \in 1..Len(Columns) : FiniteNonzero(row[Columns[c]])
    /\ 8 < row.pl_rade.v /\ row.pl_rade.v < 32
    /\ row.pl_masse.v + row.pl_masseerr2.v > 0
    /\ row.pl_rade.v + row.pl_radeerr2.v > 0

InOutput(row) == \E j \in 1..Len(data) : data[j] = row

\* C1: once the filter has run, an input row is in the filtered output if and
\* only if 1 < radius < 4, mass + mass_err_lower > 0, radius + radius_err_lower > 0
\* and all six fields are finite and nonzero; NaN, infinite and boundary rows included.
C1_FilterIff ==
    Filtered =>
        \A i \in 1..Len(catalog) :
            /\ selected[i] <=> Retain(catalog[i])
            /\ InOutput(catalog[i]) <=> Retain(catalog[i])

C1_Witness ==
    /\ pc = "transform"
    /\ Len(catalog) = 1
    /\ catalog[1].pl_rade = Fin(30)
    /\ data = catalog

\* C2: every retained row has a strictly positive radius and a strictly positive
\* mass; a row with mass = -1 is excluded whatever its other five fields are.
C2_RetainedPositive ==
    Filtered =>
        /\ \A j \in 1..Len(data) :
              /\ FGt(data[j].pl_rade, Lit(0))
              /\ FGt(data[j].pl_masse, Lit(0))
        /\ \A i \in 1..Len(catalog) :
              catalog[i].pl_masse = Lit(-1) => ~InOutput(catalog[i])

\* C3: for every retained row each of the six arguments of log10 is strictly
\* positive and value + upper differs from value + lower for radius and mass,
\* so both symmetrized log errors are defined and not zero.
C3_LogArgsPositive ==
    /\ Filtered =>
          \A j \in 1..Len(data) :
              LET r == data[j] IN
              /\ FGt(r.pl_rade, Lit(0))
              /\ FGt(r.pl_masse, Lit(0))
              /\ FGt(FAdd(r.pl_rade, r.pl_radeerr1), Lit(0))
              /\ FGt(FAdd(r.pl_rade, r.pl_radeerr2), Lit(0))
              /\ FGt(FAdd(r.pl_masse, r.pl_masseerr1), Lit(0))
              /\ FGt(FAdd(r.pl_masse, r.pl_masseerr2), Lit(0))
              /\ FAdd(r.pl_rade, r.pl_radeerr1) # FAdd(r.pl_rade, r.pl_radeerr2)
              /\ FAdd(r.pl_masse, r.pl_masseerr1) # FAdd(r.pl_masse, r.pl_masseerr2)
    /\ Transformed =>
          \A j \in 1..Len(data) :
              /\ FiniteNonzero(log_radius_err[j])
              /\ FiniteNonzero(log_mass_err[j])

\* C4: for every non-empty sample collection and every grid point, the 16th
\* percentile of A x + B - exp(logS) is at most the median of A x + B, which is
\* at most the 84th percentile of A x + B + exp(logS).
C4_BandOrdered ==
    (pc = "done" /\ err = "none") =>
        \A g \in 1..Len(x_pred) :
            mn_pred[g] <= mu_pred[g] /\ mu_pred[g] <= mx_pred[g]

C4_Witness ==
    /\ pc = "done"
    /\ err = "none"
    /\ NDraws(trace) = MaxDraws
    /\ Len(mu_pred) = GridN
    /\ \E i, j \in 1..NDraws(trace) :
          /\ trace["A"][i] # trace["A"][j]
          /\ trace["logS"][i] # trace["logS"][j]
    /\ \A g \in 1..GridN : mn_pred[g] < mu_pred[g] /\ mu_pred[g] < mx_pred[g]

\* C5: when the sampler is invoked the model declares three uniform priors on
\* [-5, 5] named A, B and logS and one observed Normal likelihood with mean
\* A*log_radius + B and variance exp(logS)^2 + log_mass_err^2.
C5_ModelAtSampling ==
    pc = "sample" => model = CompletedModel

\* C7: every parameter a step after sampling reads from the sample collection is
\* one of A, B, logS and was declared in the model before the sampler ran, so no
\* diagnostics step fails on a parameter missing from the sample collection.
C7_DiagnosticsFindParameters ==
    Sampled =>
        /\ requested \subseteq {"A", "B", "logS"}
        /\ requested \subseteq DOMAIN model.priors
        /\ requested \subseteq DOMAIN trace
        /\ err # "KeyError"

Defined(x) == x.k = "fin"

RadiusPairs ==
    {p \in (1..Len(data)) \X (1..Len(data)) : FLt(data[p[1]].pl_rade, data[p[2]].pl_rade)}

\* C6 as stated: two retained rows with radius r1 < r2 have log_radius(r1) < log_radius(r2).
C6_StrictlyMonotone ==
    Transformed =>
        \A p \in RadiusPairs :
            /\ Defined(log_radius[p[1]]) /\ Defined(log_radius[p[2]])
            /\ log_radius[p[1]].v < log_radius[p[2]].v

\* C6 as amended: two retained rows with radius r1 < r2 have defined log-radius
\* values with log_radius(r1) <= log_radius(r2); radii closer than the rounding
\* of log10 resolves share one log-radius.
C6_Monotone ==
    Transformed =>
        \A p \in RadiusPairs :
            /\ Defined(log_radius[p[1]]) /\ Defined(log_radius[p[2]])
            /\ log_radius[p[1]].v <= log_radius[p[2]].v

C6_Witness ==
    /\ Transformed
    /\ \E p \in RadiusPairs : log_radius[p[1]].v < log_radius[p[2]].v
    /\ \E p \in RadiusPairs : log_radius[p[1]].v = log_radius[p[2]].v

IsSubSeq(s, t) ==
    \E f \in [1..Len(s) -> 1..Len(t)] :
        /\ \A i \in 1..Len(s) : s[i] = t[f[i]]
        /\ \A i, j \in 1..Len(s) : i < j => f[i] < f[j]

\* C8: the filter raises nothing, whatever the rows hold, and its output is a
\* sub-sequence of its input: retained rows are unchanged and in table order,
\* none is added or duplicated.
C8_FilterSubsequence ==
    /\ pc = "transform" => err = "none"
    /\ Filtered => IsSubSeq(data, catalog)

C8_Witness ==
    /\ pc = "transform"
    /\ err = "none"
    /\ Len(catalog) = MaxRows
    /\ Len(data) = 2
    /\ data[1] # data[2]
    /\ \E i \in 1..Len(catalog) : catalog[i].pl_masse = NaN

\* C9: every step after the log transform leaves log_radius, log_radius_err,
\* log_mass and log_mass_err unchanged, and the trace plot, summary, corner plot
\* and predictive band leave the sample collection unchanged.
C9_ReadOnlyAfterTransform ==
    [][ /\ Transformed =>
            /\ log_radius' = log_radius
            /\ log_radius_err' = log_radius_err
            /\ log_mass' = log_mass
            /\ log_mass_err' = log_mass_err
        /\ pc \in {"traceplot", "summary", "corner", "predict"} => trace' = trace
      ]_vars

C9_Witness ==
    /\ pc = "done"
    /\ Len(x_pred) = GridN
    /\ Len(log_radius) > 0
    /\ NDraws(trace) > 0

\* C10: filtering the filtered table again retains every row:
\* filter(filter(rows)) = filter(rows).
C10_FilterIdempotent ==
    Filtered => BoolIndex(data, Selected(data)) = data

C10_Witness ==
    /\ pc = "transform"
    /\ Len(data) >= 2
    /\ Len(data) < Len(catalog)

====
